---- MODULE Spec2Model ----
(***************************************************************************)
(* Model of the Asana sync action (src/src/main.ts and the revision of the *)
(* same file kept as src/unnamed/part_001).  One run of the action handles *)
(* one webhook event against the Asana backend; the backend's task store   *)
(* is the only state that survives a run.                                  *)
(*                                                                         *)
(* The two revisions are modelled side by side: the variable `build` names *)
(* the file whose code a behaviour executes, and every definition that     *)
(* differs between the files branches on it.                               *)
(*                                                                         *)
(* Text is modelled as sequences of tokens (a title is a sequence of       *)
(* strings), so that prefix tests and "contains" are real computations.    *)
(***************************************************************************)
EXTENDS Integers, Sequences, FiniteSets, TLC

VARIABLES
    build,       \* which revision of main.ts runs
    sectionId,   \* getInput('move_to_section_id')
    fieldNames,  \* names of the custom fields defined in the workspace
    tasks,       \* backend: pull-request tasks, gid = index
    subtasks,    \* backend: subtasks, gid = index
    ev,          \* per run: the webhook event (context), NoEvent when idle
    pc,          \* per run: position of run() and of the un-awaited promise
    loc,         \* per run: locals of run()
    sub,         \* per run and thread: locals of the subtask routines
    out,         \* per run: setOutput / setFailed
    hist         \* per run: what the backend looked like when the run began

backend == <<tasks, subtasks>>
config == <<build, sectionId, fieldNames>>
vars == <<build, sectionId, fieldNames, tasks, subtasks, ev, pc, loc, sub, out, hist>>

(***************************************************************************)
(* Bounds of the model                                                     *)
(***************************************************************************)
MaxTasks == 3
MaxSubtasks == 2
MaxBody == 7     \* longest pull-request body of the content model, in characters
BodyCap == 5     \* stands for the 5000-character cap of part_001 297

(***************************************************************************)
(* Program constants and configuration                                     *)
(***************************************************************************)
MainTs == "src/src/main.ts"
Part001 == "src/unnamed/part_001"
Builds == {MainTs, Part001}

CUSTOM_FIELD_NAMES == [url |-> "Github URL", status |-> "Github Status"]

\* main.ts hard-codes the table; part_001 parses it from the USER_MAP input,
\* which the model sets to the same table.
MAIL_MAP == [mas |-> "marc", nil |-> "caine"]

\* main.ts: default 'bhall,tommy,aaron,viktor'; part_001: the SKIPPED_USERS
\* input, set here to a list that also holds tommy.
SKIPPED_USERS_LIST == {"bhall", "tommy", "aaron", "viktor"}

\* main.ts: default '11984721910118'; part_001: the NO_AUTOCLOSE_PROJECTS input.
NO_AUTOCLOSE_LIST == {"11984721910118"}

PROJECT_ID == "project"
maxRetries == 5

NoLogin == "-"
NoMail == "null"
NoEvent == [name |-> "-"]

(***************************************************************************)
(* Pure functions                                                          *)
(***************************************************************************)
\* main.ts 52-59: unknown logins fall back to the login itself.
getUserFromLoginMain(login) ==
    LET mail == IF login \in DOMAIN MAIL_MAP THEN MAIL_MAP[login] ELSE login
    IN  mail \o "@duckduckgo.com"

\* part_001 44-51: unknown logins resolve to null.
getUserFromLoginPart(login) ==
    IF login \in DOMAIN MAIL_MAP
    THEN MAIL_MAP[login] \o "@duckduckgo.com"
    ELSE NoMail

getUserFromLogin(login) ==
    IF build = MainTs THEN getUserFromLoginMain(login)
    ELSE getUserFromLoginPart(login)

\* A mapping that looks at the state before the merged flag.
getPRStateStateFirst(pr) ==
    IF pr.state = "open"
    THEN IF pr.draft THEN "Draft" ELSE "Open"
    ELSE IF pr.merged THEN "Merged" ELSE "Closed"

\* main.ts 386-397, part_001 431-442
getPRState(pr) ==
    IF pr.merged THEN "Merged"
    ELSE IF pr.state = "open"
         THEN IF pr.draft THEN "Draft" ELSE "Open"
         ELSE "Closed"

\* The Status field's enum options: name -> gid.
enum_options == [Open |-> "gid-open", Closed |-> "gid-closed",
                 Merged |-> "gid-merged", Draft |-> "gid-draft"]

\* main.ts 272-275: gid of the option named like the pull request's state, or ''.
StatusGid(pr) ==
    IF getPRState(pr) \in DOMAIN enum_options
    THEN enum_options[getPRState(pr)] ELSE ""

\* main.ts 276 / part_001 284: the task's name.
Title(e) ==
    IF build = MainTs
    THEN <<e.repo.full_name, "#", e.pr.number, " - ">> \o e.pr.title
    ELSE <<"PR ", e.repo.name, " #", e.pr.number, ": ">> \o e.pr.title

\* String.prototype.startsWith on token sequences.
StartsWith(s, prefix) ==
    /\ Len(s) >= Len(prefix)
    /\ SubSeq(s, 1, Len(prefix)) = prefix


\* A body is a sequence of pieces: single characters ("-", the line break, a
\* letter) or a run of text without dashes and line breaks that counts as one.
LineBreak == "\n"
Ellipsis == "..."
EmptyDescription == <<"Empty description">>

\* main.ts 277 / part_001 285: payload.pull_request.body || 'Empty description'
BodyOrDefault(body) == IF body = <<>> THEN EmptyDescription ELSE body

\* part_001 296-297: body.length > 5000 ? `${body.slice(0, 5000)}...` : body, the
\* marker being the one-character ellipsis.
Truncate(body) ==
    IF Len(body) > BodyCap THEN SubSeq(body, 1, BodyCap) \o <<Ellipsis>> ELSE body

\* /^---$/m at position i: three dashes that start a line and end it.
FooterAt(body, i) ==
    /\ i + 2 <= Len(body)
    /\ body[i] = "-" /\ body[i + 1] = "-" /\ body[i + 2] = "-"
    /\ (i = 1 \/ body[i - 1] = LineBreak)
    /\ (i + 2 = Len(body) \/ body[i + 3] = LineBreak)

\* A replace that takes out the marker line alone: /^---$/m without [\s\S]*.
StripFooterLineOnly(body) ==
    IF \E i \in 1..Len(body) : FooterAt(body, i)
    THEN LET first == CHOOSE i \in 1..Len(body) :
                         FooterAt(body, i) /\ \A j \in 1..(i - 1) : ~FooterAt(body, j)
         IN  SubSeq(body, 1, first - 1) \o SubSeq(body, first + 3, Len(body))
    ELSE body

\* main.ts 288 / part_001 298: body.replace(/^---$[\s\S]*/gm, ''): the first line
\* that is exactly '---' goes, with everything after it.
StripFooter(body) ==
    IF \E i \in 1..Len(body) : FooterAt(body, i)
    THEN LET first == CHOOSE i \in 1..Len(body) :
                         FooterAt(body, i) /\ \A j \in 1..(i - 1) : ~FooterAt(body, j)
         IN  SubSeq(body, 1, first - 1)
    ELSE body

\* The body as the notes carry it: main.ts 288 strips it, part_001 296-298 cuts
\* it to the cap first.
truncatedBody(body) ==
    IF build = MainTs THEN StripFooter(body) ELSE StripFooter(Truncate(body))

RefLine == "Asana: https://app.asana.com/0/0/77"
ParentRef == "77"

\* main.ts 219-225: notes.match(/Asana:.*https:\/\/app.asana.*\/([0-9]+).*/) on the
\* notes, whose only variable part is the body they carry.
asanaTaskMatch(notes) ==
    IF \E i \in 1..Len(notes) : notes[i] = RefLine
    THEN ParentRef ELSE ""

(***************************************************************************)
(* Events                                                                  *)
(***************************************************************************)
PrUrl == "https://github.com/o/r/pull/42"
OtherUrl == "https://github.com/o/r/pull/7"
Repo == [full_name |-> "o/r", name |-> "r"]

FixBug == <<"Fix bug">>
FixTypo == <<"Fix typo">>
ReleaseTitle == <<"Release: ", "1.0">>
Titles == {FixBug, FixTypo, ReleaseTitle}

Logins == {"mas", "marc", "nil", "tommy"}

\* The pull-request snapshot of a payload.
PullRequest(title, body, state, draft, merged) ==
    [number |-> "42", html_url |-> PrUrl, title |-> title, body |-> body,
     state |-> state, draft |-> draft, merged |-> merged]

Flags == [state : {"open", "closed"}, draft : BOOLEAN, merged : BOOLEAN]
OpenPR == [state |-> "open", draft |-> FALSE, merged |-> FALSE]
DraftPR == [state |-> "open", draft |-> TRUE, merged |-> FALSE]
MergedPR == [state |-> "closed", draft |-> FALSE, merged |-> TRUE]

Event(name, action, title, f, reviewer, review) ==
    [name |-> name, action |-> action, repo |-> Repo,
     pr |-> PullRequest(title, <<"text">>, f.state, f.draft, f.merged),
     reviewer |-> reviewer, review |-> review]

\* A pull_request event of an open pull request with the body `body`.
BodyEvent(action, body) ==
    [name |-> "pull_request", action |-> action, repo |-> Repo,
     pr |-> PullRequest(FixBug, body, "open", FALSE, FALSE),
     reviewer |-> NoLogin, review |-> "-"]

\* Bodies with and without a parent reference: a plain one, references on the
\* first and on a later line, a reference below the footer marker, and one
\* beyond the cap.
ParentBodies ==
    {<<"text">>, <<RefLine>>, <<"text", LineBreak, RefLine>>,
     <<"-", "-", "-", LineBreak, RefLine>>,
     <<"text", LineBreak, "text", LineBreak, "text", LineBreak, RefLine>>}

BodyEvents == {BodyEvent(a, b) : a \in {"opened", "edited"}, b \in ParentBodies}

\* Every body of at most MaxBody characters over dashes, line breaks and a letter.
Alphabet == {"-", LineBreak, "a"}
Bodies == UNION {[1..n -> Alphabet] : n \in 0..MaxBody}
ContentEvents == {BodyEvent("edited", b) : b \in Bodies}

\* The payloads of the model: every combination of the pull-request flags on
\* 'edited', and one dimension varied at a time around a plain open pull request.
Events ==
    {Event("pull_request", "opened", FixBug, f, NoLogin, "-") : f \in {OpenPR, DraftPR}}
    \cup {Event("pull_request", "opened", ReleaseTitle, OpenPR, NoLogin, "-")}
    \cup {Event("pull_request", "edited", FixBug, f, NoLogin, "-") : f \in Flags}
    \cup {Event("pull_request", "edited", FixTypo, OpenPR, NoLogin, "-")}
    \cup {Event("pull_request", "closed", FixBug, MergedPR, NoLogin, "-")}
    \cup {Event("pull_request", "review_requested", FixBug, OpenPR, l, "-") :
            l \in {"mas", "marc", "tommy", NoLogin}}
    \cup {Event("pull_request", "review_requested", FixBug, MergedPR, "mas", "-")}
    \cup {Event("pull_request_target", "edited", FixBug, OpenPR, NoLogin, "-")}
    \cup {Event("pull_request_target", "review_requested", FixBug, OpenPR, "mas", "-")}
    \cup {Event("pull_request_review", "submitted", FixBug, OpenPR, l, "approved") :
            l \in {"mas", "marc", "tommy"}}
    \cup {Event("pull_request_review", "submitted", FixBug, MergedPR, "mas", "approved")}
    \cup {Event("pull_request_review", "submitted", FixBug, OpenPR, "mas", "commented")}
    \cup {Event("push", "-", FixBug, OpenPR, NoLogin, "-")}

\* The payloads of the review model: every reviewer on requests and approvals,
\* around one pull request that is opened, edited and merged.
ReviewEvents ==
    {Event("pull_request", a, FixBug, OpenPR, NoLogin, "-") : a \in {"opened", "edited"}}
    \cup {Event("pull_request", "closed", FixBug, MergedPR, NoLogin, "-")}
    \cup {Event("pull_request", "review_requested", FixBug, OpenPR, l, "-") :
            l \in Logins \cup {NoLogin}}
    \cup {Event("pull_request", "review_requested", FixBug, MergedPR, "mas", "-")}
    \cup {Event("pull_request_target", "review_requested", FixBug, OpenPR, "mas", "-")}
    \cup {Event("pull_request_review", "submitted", FixBug, OpenPR, l, "approved") :
            l \in Logins}
    \cup {Event("pull_request_review", "submitted", FixBug, MergedPR, "mas", "approved")}
    \cup {Event("pull_request_review", "submitted", FixBug, OpenPR, "mas", "commented")}

(***************************************************************************)
(* Backend records and per-run locals                                      *)
(***************************************************************************)
RunIds == {1, 2}
Threads == {"main", "float"}

OtherTask ==
    [url |-> OtherUrl, name |-> <<"other">>, status |-> "gid-open", notes |-> "plain",
     completed |-> FALSE, projects |-> {PROJECT_ID}, parent |-> "", section |-> "",
     vis |-> "settled"]

LocInit == [task |-> 0, retries |-> 0, closeTask |-> FALSE, statusGid |-> "",
            title |-> <<>>, notes |-> <<>>, parentObj |-> ""]
SubInit == [list |-> <<>>, i |-> 0, reviewSubtask |-> 0, reviewer |-> NoLogin]
OutInit == [result |-> "", task_url |-> 0, failed |-> ""]
HistInit == [tasks |-> <<>>, subs |-> <<>>, lookups |-> 0, creates |-> 0,
             updates |-> 0, parentFetch |-> "none"]
PcInit == [main |-> "idle", float |-> "none"]

Init ==
    /\ build \in Builds
    /\ sectionId \in {"", "section"}
    /\ fieldNames \in {{"Github URL", "Github Status", "Priority"},
                       {"Github URL", "Priority"}, {"Github Status"}}
    /\ tasks = <<OtherTask>>
    /\ subtasks = <<>>
    /\ ev = [r \in RunIds |-> NoEvent]
    /\ pc = [r \in RunIds |-> PcInit]
    /\ loc = [r \in RunIds |-> LocInit]
    /\ sub = [r \in RunIds |-> [t \in Threads |-> SubInit]]
    /\ out = [r \in RunIds |-> OutInit]
    /\ hist = [r \in RunIds |-> HistInit]


(***************************************************************************)
(* Helpers over the backend                                                *)
(***************************************************************************)
\* The error messages setFailed can report; "" while the run has not failed.
MissingFields == "Custom fields are missing. Please create them"
NotFound == "No PR task found. Bailing out"
BackendError == "request failed"
Unhandled == "unhandled rejection"

\* setFailed in run()'s catch (main.ts 353-355): the error ends run().
Fail(r, message) ==
    /\ out' = [out EXCEPT ![r].failed = message]
    /\ pc' = [pc EXCEPT ![r].main = "done"]

\* An error inside a promise nobody awaits is an unhandled rejection: the
\* runtime ends the process with a failure status wherever run() stands.
Crash(r) ==
    /\ out' = [out EXCEPT ![r].failed = Unhandled]
    /\ pc' = [pc EXCEPT ![r] = [main |-> "done", float |-> "done"]]

\* main.ts 167-169: what searchInWorkspace answers for the URL: the tasks with
\* that URL field value that the index shows.
IndexResult(url) ==
    {t \in 1..Len(tasks) : tasks[t].url = url /\ tasks[t].vis # "fresh"}

\* main.ts 167-170: what the workspace search by URL field hands to findPRTask.
\* The search index lags creation; main.ts then discards the result.
SearchResult(url) ==
    IF build = MainTs THEN {} ELSE IndexResult(url)

\* A scan that matches any task of the project.
ScanResultAnyUrl(url) ==
    {t \in 1..Len(tasks) : PROJECT_ID \in tasks[t].projects /\ tasks[t].vis # "old"}

\* main.ts 178-192: the tasks of the project scan (the 100 most recent of the
\* project) whose URL field displays the pull request's URL.
ScanResult(url) ==
    {t \in 1..Len(tasks) :
        /\ PROJECT_ID \in tasks[t].projects /\ tasks[t].vis # "old"
        /\ tasks[t].url = url}

\* client.tasks.subtasks(taskId): gids of the subtasks of a task, in order.
SubtasksOf(taskId) ==
    SelectSeq([i \in 1..Len(subtasks) |-> i], LAMBDA g : subtasks[g].parent = taskId)

\* A dispatch that takes the review branch whatever the pull request's state.
BranchPcReviewOnly(e) == [main |-> "subtasks", float |-> "none"]

\* main.ts 315-342: where run() goes once it holds the task, after the optional
\* section move: the close branch starts closeSubtasks without awaiting it.
BranchPc(e) ==
    IF e.pr.state = "closed"
    THEN [main |-> "membership", float |-> "cs_list"]
    ELSE [main |-> "subtasks", float |-> "none"]

\* main.ts 316-319: the section move comes first when a section is configured.
AfterTaskPc(e) ==
    IF sectionId # "" THEN [main |-> "section", float |-> "none"] ELSE BranchPc(e)

\* main.ts 279-288 / part_001 296-304: the body part of the notes.
Notes(e) == truncatedBody(BodyOrDefault(e.pr.body))

\* main.ts 198-225: createPRTask up to its first request.
CreateEntryPc(e) ==
    IF asanaTaskMatch(Notes(e)) # "" THEN "parent" ELSE "create"

(***************************************************************************)
(* run(): event filter, field directory, task resolution                   *)
(***************************************************************************)
NoRunActive == \A r \in RunIds : pc[r].main = "idle"

\* A filter that lets release pull requests through.
RelevantAnyTitle(e) ==
    e.name \in {"pull_request", "pull_request_target", "pull_request_review"}

\* main.ts 240-256
Relevant(e) ==
    /\ e.name \in {"pull_request", "pull_request_target", "pull_request_review"}
    /\ ~StartsWith(e.pr.title, <<"Release: ">>)

Start(r, e) ==
    /\ pc[r].main = "idle"
    /\ Len(tasks) < MaxTasks
    /\ ev' = [ev EXCEPT ![r] = e]
    /\ hist' = [hist EXCEPT ![r] = [HistInit EXCEPT !.tasks = tasks, !.subs = subtasks]]
    /\ pc' = [pc EXCEPT ![r].main = IF Relevant(e) THEN "fields" ELSE "done"]
    /\ UNCHANGED <<config, backend, loc, sub, out>>

\* A directory check that asks for the URL field only.
FieldsPresentUrlOnly == CUSTOM_FIELD_NAMES.url \in fieldNames

\* main.ts 370-379: both custom fields are defined in the workspace.
FieldsPresent ==
    /\ CUSTOM_FIELD_NAMES.url \in fieldNames
    /\ CUSTOM_FIELD_NAMES.status \in fieldNames

\* main.ts 269-288, 358-384
FindCustomFields(r, ok) ==
    /\ pc[r].main = "fields"
    /\ IF ok /\ FieldsPresent
       THEN /\ loc' = [loc EXCEPT ![r].statusGid = StatusGid(ev[r].pr),
                                  ![r].title = Title(ev[r]),
                                  ![r].notes = Notes(ev[r]),
                                  ![r].parentObj = asanaTaskMatch(Notes(ev[r]))]
            /\ pc' = [pc EXCEPT ![r].main =
                        IF ev[r].action \in {"opened"}
                        THEN CreateEntryPc(ev[r]) ELSE "search"]
            /\ UNCHANGED out
       ELSE /\ Fail(r, IF ok THEN MissingFields ELSE BackendError)
            /\ UNCHANGED loc
    /\ UNCHANGED <<config, backend, ev, sub, hist>>

\* A check that keeps the parent whatever the fetch says.
ParentAfterCheckKept(ok, parentObj) == parentObj

\* main.ts 228-232: the .catch handler empties parentObj.
ParentAfterCheck(ok, parentObj) == IF ok THEN parentObj ELSE ""

\* main.ts 227-232: the parent is dropped when it cannot be fetched.
ParentCheck(r, ok) ==
    /\ pc[r].main = "parent"
    /\ loc' = [loc EXCEPT ![r].parentObj = ParentAfterCheck(ok, @)]
    /\ hist' = [hist EXCEPT ![r].parentFetch = IF ok THEN "ok" ELSE "failed"]
    /\ pc' = [pc EXCEPT ![r].main = "create"]
    /\ UNCHANGED <<config, backend, ev, sub, out>>

\* A creation that forgets the URL field.
NewTaskNoUrl(r) ==
    [url |-> "", name |-> loc[r].title, status |-> loc[r].statusGid,
     notes |-> "plain", completed |-> FALSE, projects |-> {PROJECT_ID},
     parent |-> loc[r].parentObj, section |-> "", vis |-> "fresh"]

\* main.ts 206-216, 235: the task createPRTask asks the backend to create.
NewTask(r) ==
    [url |-> ev[r].pr.html_url, name |-> loc[r].title, status |-> loc[r].statusGid,
     notes |-> "plain", completed |-> FALSE, projects |-> {PROJECT_ID},
     parent |-> loc[r].parentObj, section |-> "", vis |-> "fresh"]

\* main.ts 235, 292-293, 315: client.tasks.create and the outputs.
Create(r, ok) ==
    /\ pc[r].main = "create"
    /\ Len(tasks) < MaxTasks
    /\ IF ok
       THEN /\ tasks' = Append(tasks, NewTask(r))
            /\ loc' = [loc EXCEPT ![r].task = Len(tasks) + 1,
                                  ![r].closeTask = (sectionId = "" /\ ev[r].pr.state = "closed")]
            /\ out' = [out EXCEPT ![r].result = "created", ![r].task_url = Len(tasks) + 1]
            /\ pc' = [pc EXCEPT ![r] = AfterTaskPc(ev[r])]
            /\ hist' = [hist EXCEPT ![r].creates = @ + 1]
       ELSE /\ Fail(r, BackendError)
            /\ UNCHANGED <<tasks, loc, hist>>
    /\ UNCHANGED <<config, subtasks, ev, sub>>

\* A lookup that reports the task it found as created.
FoundAsCreated(r, t) ==
    /\ loc' = [loc EXCEPT ![r].task = t,
                          ![r].closeTask = (sectionId = "" /\ ev[r].pr.state = "closed")]
    /\ out' = [out EXCEPT ![r].result = "created", ![r].task_url = t]
    /\ pc' = [pc EXCEPT ![r] = AfterTaskPc(ev[r])]

\* The task findPRTask returned: main.ts 301-303, 315.
Found(r, t) ==
    /\ loc' = [loc EXCEPT ![r].task = t,
                          ![r].closeTask = (sectionId = "" /\ ev[r].pr.state = "closed")]
    /\ out' = [out EXCEPT ![r].result = "updated", ![r].task_url = t]
    /\ pc' = [pc EXCEPT ![r] = AfterTaskPc(ev[r])]

\* main.ts 167-174: the primary lookup of one attempt.
Search(r, ok) ==
    /\ pc[r].main = "search"
    /\ hist' = [hist EXCEPT ![r].lookups = @ + 1]
    /\ IF ~ok THEN Fail(r, BackendError) /\ UNCHANGED loc
       ELSE IF SearchResult(ev[r].pr.html_url) # {}
       THEN \E t \in SearchResult(ev[r].pr.html_url) : Found(r, t)
       ELSE /\ pc' = [pc EXCEPT ![r].main = "scan"]
            /\ UNCHANGED <<loc, out>>
    /\ UNCHANGED <<config, backend, ev, sub>>

\* main.ts 178-195: the fallback project scan of one attempt.
Scan(r, ok) ==
    /\ pc[r].main = "scan"
    /\ IF ~ok THEN Fail(r, BackendError) /\ UNCHANGED loc
       ELSE IF ScanResult(ev[r].pr.html_url) # {}
       THEN \E t \in ScanResult(ev[r].pr.html_url) : Found(r, t)
       ELSE /\ pc' = [pc EXCEPT ![r].main = "sleep"]
            /\ UNCHANGED <<loc, out>>
    /\ UNCHANGED <<config, backend, ev, sub, hist>>

\* A loop that sleeps and tries again without counting the attempt.
SleepNoCount(r) ==
    /\ pc[r].main = "sleep"
    /\ pc' = [pc EXCEPT ![r].main = "search"]
    /\ UNCHANGED <<config, backend, ev, loc, sub, out, hist>>

\* main.ts 305-313 / part_001 327-339: sleep, count, and what follows the loop.
Sleep(r) ==
    /\ pc[r].main = "sleep"
    /\ loc' = [loc EXCEPT ![r].retries = @ + 1]
    /\ IF loc[r].retries + 1 < maxRetries
       THEN pc' = [pc EXCEPT ![r].main = "search"] /\ UNCHANGED out
       ELSE IF build = MainTs
       THEN Fail(r, NotFound)
       ELSE pc' = [pc EXCEPT ![r].main = CreateEntryPc(ev[r])] /\ UNCHANGED out
    /\ UNCHANGED <<config, backend, ev, sub, hist>>

\* main.ts 316-322
Section(r, ok) ==
    /\ pc[r].main = "section"
    /\ IF ok
       THEN /\ tasks' = [tasks EXCEPT ![loc[r].task].section = sectionId]
            /\ loc' = [loc EXCEPT ![r].closeTask = (ev[r].pr.state = "closed")]
            /\ pc' = [pc EXCEPT ![r] = BranchPc(ev[r])]
            /\ UNCHANGED out
       ELSE Fail(r, BackendError) /\ UNCHANGED <<tasks, loc>>
    /\ UNCHANGED <<config, subtasks, ev, sub, hist>>


(***************************************************************************)
(* Closure policy and cascade                                              *)
(***************************************************************************)
\* A close decision that forgets the veto.
alwaysClose(projects) == TRUE

\* main.ts 331-339: close unless a membership's project is in the no-autoclose list.
shouldAutoClose(projects) == ~(\E p \in projects : p \in NO_AUTOCLOSE_LIST)

\* main.ts 333-339: fetch the task, veto the close on an excluded membership.
Membership(r, ok) ==
    /\ pc[r].main = "membership"
    /\ IF ok
       THEN /\ loc' = [loc EXCEPT ![r].closeTask = shouldAutoClose(tasks[loc[r].task].projects)]
            /\ pc' = [pc EXCEPT ![r].main = "update"]
            /\ UNCHANGED out
       ELSE Fail(r, BackendError) /\ UNCHANGED loc
    /\ UNCHANGED <<config, backend, ev, sub, hist>>

\* main.ts 154: closeSubtasks lists the subtasks.
CloseList(r, ok) ==
    /\ pc[r].float = "cs_list"
    /\ IF ok
       THEN /\ sub' = [sub EXCEPT ![r].float.list = SubtasksOf(loc[r].task),
                                  ![r].float.i = 1]
            /\ pc' = [pc EXCEPT ![r].float =
                        IF SubtasksOf(loc[r].task) = <<>> THEN "done" ELSE "cs_upd"]
            /\ UNCHANGED out
       ELSE Crash(r) /\ UNCHANGED sub
    /\ UNCHANGED <<config, backend, ev, loc, hist>>

\* A loop that stops after its first subtask.
CloseLoopPcOnce(i, n) == "done"

\* main.ts 156: the loop goes on while subtasks are left.
CloseLoopPc(i, n) == IF i < n THEN "cs_upd" ELSE "done"

\* main.ts 156-158: complete the next subtask of the list.
CloseUpdate(r, ok) ==
    /\ pc[r].float = "cs_upd"
    /\ IF ok
       THEN /\ subtasks' = [subtasks EXCEPT
                              ![sub[r].float.list[sub[r].float.i]].completed = TRUE]
            /\ sub' = [sub EXCEPT ![r].float.i = @ + 1]
            /\ pc' = [pc EXCEPT ![r].float =
                        CloseLoopPc(sub[r].float.i, Len(sub[r].float.list))]
            /\ UNCHANGED out
       ELSE Crash(r) /\ UNCHANGED <<subtasks, sub>>
    /\ UNCHANGED <<config, tasks, ev, loc, hist>>

(***************************************************************************)
(* Review reconciliation                                                   *)
(***************************************************************************)
\* An error thrown in a thread: run()'s catch, or an unhandled rejection.
Throw(r, t) == IF t = "main" THEN Fail(r, BackendError) ELSE Crash(r)

\* main.ts 71-76 / part_001 65-70
Skipped(reviewer) ==
    \/ reviewer \in SKIPPED_USERS_LIST
    \/ build = Part001 /\ getUserFromLogin(reviewer) = NoMail

\* main.ts 61-79, 104: createOrReopenReviewSubtask up to its first request.
CorEntryPc(list, reviewer) ==
    IF Skipped(reviewer) THEN "ret_null"
    ELSE IF list = <<>> THEN "cor_add" ELSE "cor_task"

\* A return that never completes the subtask.
ReturnPcNoComplete(t, subtask) == IF t = "float" THEN "done" ELSE "update"

\* Where a thread goes when createOrReopenReviewSubtask returns: main.ts 145-148
\* completes the subtask it got; the un-awaited call of main.ts 125 just ends.
ReturnPc(t, subtask) ==
    IF t = "float" THEN "done"
    ELSE IF subtask # 0 THEN "complete" ELSE "update"

\* main.ts 120-124 / part_001 128-135: a review request this revision handles.
IsReviewRequest(e) ==
    /\ \/ e.name = "pull_request"
       \/ build = Part001 /\ e.name = "pull_request_target"
    /\ e.action = "review_requested"
    /\ e.reviewer # NoLogin

\* main.ts 132-137
IsApproval(e) ==
    /\ e.name = "pull_request_review"
    /\ e.action = "submitted"
    /\ e.review = "approved"

\* main.ts 116-151: updateReviewSubTasks lists the subtasks and dispatches; the
\* review_requested call is not awaited.
ListSubtasks(r, ok) ==
    /\ pc[r].main = "subtasks"
    /\ IF ~ok THEN Fail(r, BackendError) /\ UNCHANGED sub
       ELSE LET list == SubtasksOf(loc[r].task)
                entry == CorEntryPc(list, ev[r].reviewer)
                s == [list |-> list, i |-> 1, reviewSubtask |-> 0,
                      reviewer |-> ev[r].reviewer]
            IN  IF IsReviewRequest(ev[r])
                THEN /\ sub' = [sub EXCEPT ![r].float = s]
                     /\ pc' = [pc EXCEPT ![r] =
                                 [main |-> "update",
                                  float |-> IF entry = "ret_null" THEN "done" ELSE entry]]
                     /\ UNCHANGED out
                ELSE IF IsApproval(ev[r])
                THEN /\ sub' = [sub EXCEPT ![r].main = s]
                     /\ pc' = [pc EXCEPT ![r].main =
                                 IF entry = "ret_null" THEN ReturnPc("main", 0) ELSE entry]
                     /\ UNCHANGED out
                ELSE /\ pc' = [pc EXCEPT ![r].main = "update"]
                     /\ UNCHANGED <<sub, out>>
    /\ UNCHANGED <<config, backend, ev, loc, hist>>

\* main.ts 79-94: the loop moves to the next subtask, or ends without a match.
NextSubtask(r, t) ==
    IF sub[r][t].i < Len(sub[r][t].list)
    THEN /\ sub' = [sub EXCEPT ![r][t].i = @ + 1]
         /\ pc' = [pc EXCEPT ![r][t] = "cor_task"]
    ELSE /\ pc' = [pc EXCEPT ![r][t] = "cor_add"]
         /\ UNCHANGED sub

\* main.ts 81-85: fetch the subtask, skip it when it has no assignee.
CorTask(r, t, ok) ==
    /\ pc[r][t] = "cor_task"
    /\ IF ~ok THEN Throw(r, t) /\ UNCHANGED sub
       ELSE /\ IF subtasks[sub[r][t].list[sub[r][t].i]].assignee = ""
               THEN NextSubtask(r, t)
               ELSE pc' = [pc EXCEPT ![r][t] = "cor_user"] /\ UNCHANGED sub
            /\ UNCHANGED out
    /\ UNCHANGED <<config, backend, ev, loc, hist>>

\* A comparison of the address with the login instead of the login's address.
SameReviewerLogin(email, reviewer) == email = reviewer

\* main.ts 87: asanaUser.email === reviewerEmail
SameReviewer(email, reviewer) == email = getUserFromLogin(reviewer)

\* main.ts 86-93: fetch the assignee, compare the contact address.
CorUser(r, t, ok) ==
    /\ pc[r][t] = "cor_user"
    /\ IF ~ok THEN Throw(r, t) /\ UNCHANGED sub
       ELSE /\ IF SameReviewer(subtasks[sub[r][t].list[sub[r][t].i]].assignee,
                               sub[r][t].reviewer)
               THEN /\ sub' = [sub EXCEPT ![r][t].reviewSubtask =
                                 sub[r][t].list[sub[r][t].i]]
                    /\ pc' = [pc EXCEPT ![r][t] = "cor_reopen"]
               ELSE NextSubtask(r, t)
            /\ UNCHANGED out
    /\ UNCHANGED <<config, backend, ev, loc, hist>>

\* A subtask added under the first task of the store.
NewSubtaskElsewhere(r, t) ==
    [parent |-> 1, name |-> <<"Review Request: ">> \o ev[r].pr.title,
     assignee |-> getUserFromLogin(sub[r][t].reviewer), completed |-> FALSE]

\* A subtask assigned to the login instead of the contact address.
NewSubtaskLogin(r, t) ==
    [parent |-> loc[r].task, name |-> <<"Review Request: ">> \o ev[r].pr.title,
     assignee |-> sub[r][t].reviewer, completed |-> FALSE]

\* main.ts 96-103, 107: the subtask addSubtask is asked to add under taskId.
NewSubtask(r, t) ==
    [parent |-> loc[r].task, name |-> <<"Review Request: ">> \o ev[r].pr.title,
     assignee |-> getUserFromLogin(sub[r][t].reviewer), completed |-> FALSE]

\* main.ts 104-107, 113: no subtask matched, add one.
CorAdd(r, t, ok) ==
    /\ pc[r][t] = "cor_add"
    /\ Len(subtasks) < MaxSubtasks
    /\ IF ok
       THEN /\ subtasks' = Append(subtasks, NewSubtask(r, t))
            /\ sub' = [sub EXCEPT ![r][t].reviewSubtask = Len(subtasks) + 1]
            /\ pc' = [pc EXCEPT ![r][t] = ReturnPc(t, Len(subtasks) + 1)]
            /\ UNCHANGED out
       ELSE Throw(r, t) /\ UNCHANGED <<subtasks, sub>>
    /\ UNCHANGED <<config, tasks, ev, loc, hist>>

\* main.ts 108-113: a subtask matched, reopen it.
CorReopen(r, t, ok) ==
    /\ pc[r][t] = "cor_reopen"
    /\ IF ok
       THEN /\ subtasks' = [subtasks EXCEPT ![sub[r][t].reviewSubtask].completed = FALSE]
            /\ pc' = [pc EXCEPT ![r][t] = ReturnPc(t, sub[r][t].reviewSubtask)]
            /\ UNCHANGED out
       ELSE Throw(r, t) /\ UNCHANGED subtasks
    /\ UNCHANGED <<config, tasks, ev, loc, sub, hist>>

\* main.ts 145-148: the approval completes the reviewer's subtask.
Complete(r, ok) ==
    /\ pc[r].main = "complete"
    /\ IF ok
       THEN /\ subtasks' = [subtasks EXCEPT ![sub[r].main.reviewSubtask].completed = TRUE]
            /\ pc' = [pc EXCEPT ![r].main = "update"]
            /\ UNCHANGED out
       ELSE Fail(r, BackendError) /\ UNCHANGED subtasks
    /\ UNCHANGED <<config, tasks, ev, loc, sub, hist>>

(***************************************************************************)
(* Final update                                                            *)
(***************************************************************************)
\* An update that leaves the name alone.
UpdatedNoName(task, r, notes) ==
    [task EXCEPT !.notes = notes, !.completed = loc[r].closeTask,
                 !.status = loc[r].statusGid]

\* An update that completes the task on a close and never opens it again.
UpdatedKeepCompleted(task, r, notes) ==
    [task EXCEPT !.name = loc[r].title, !.notes = notes, !.status = loc[r].statusGid,
                 !.completed = task.completed \/ loc[r].closeTask]

\* The fields the final update writes: main.ts 344-352.
Updated(task, r, notes) ==
    [task EXCEPT !.name = loc[r].title, !.notes = notes,
                 !.completed = loc[r].closeTask, !.status = loc[r].statusGid]

\* main.ts 344-352 (plaintext notes) / part_001 370-381 (rich notes first).
Update(r, ok) ==
    /\ pc[r].main = "update"
    /\ IF ok
       THEN /\ tasks' = [tasks EXCEPT ![loc[r].task] =
                           Updated(@, r, IF build = MainTs THEN "plain" ELSE "html")]
            /\ pc' = [pc EXCEPT ![r].main = "done"]
            /\ UNCHANGED out
       ELSE /\ IF build = MainTs THEN Fail(r, BackendError)
               ELSE pc' = [pc EXCEPT ![r].main = "update_plain"] /\ UNCHANGED out
            /\ UNCHANGED tasks
    /\ hist' = [hist EXCEPT ![r].updates = @ + 1]
    /\ UNCHANGED <<config, subtasks, ev, loc, sub>>

\* part_001 382-393: the same update with plaintext notes.
UpdatePlain(r, ok) ==
    /\ pc[r].main = "update_plain"
    /\ IF ok
       THEN /\ tasks' = [tasks EXCEPT ![loc[r].task] = Updated(@, r, "plain")]
            /\ pc' = [pc EXCEPT ![r].main = "done"]
            /\ UNCHANGED out
       ELSE Fail(r, BackendError) /\ UNCHANGED tasks
    /\ hist' = [hist EXCEPT ![r].updates = @ + 1]
    /\ UNCHANGED <<config, subtasks, ev, loc, sub>>

\* The process ends when run() has returned and no request is outstanding.
Ended(r) == pc[r].main = "done" /\ pc[r].float \in {"none", "done"}

Finish(r) ==
    /\ Ended(r)
    /\ ev' = [ev EXCEPT ![r] = NoEvent]
    /\ pc' = [pc EXCEPT ![r] = PcInit]
    /\ loc' = [loc EXCEPT ![r] = LocInit]
    /\ sub' = [sub EXCEPT ![r] = [t \in Threads |-> SubInit]]
    /\ out' = [out EXCEPT ![r] = OutInit]
    /\ hist' = [hist EXCEPT ![r] = HistInit]
    /\ UNCHANGED <<config, backend>>

(***************************************************************************)
(* The backend's own steps                                                 *)
(***************************************************************************)
Quiet == \A r \in RunIds : pc[r].main \in {"idle", "sleep"}

\* The search index catches up with a created task.
Index(t) ==
    /\ Quiet
    /\ tasks[t].url = PrUrl /\ tasks[t].vis = "fresh"
    /\ tasks' = [tasks EXCEPT ![t].vis = "settled"]
    /\ UNCHANGED <<config, subtasks, ev, pc, loc, sub, out, hist>>

\* Newer tasks push a task out of the project's 100 most recent.
Age(t) ==
    /\ Quiet
    /\ tasks[t].url = PrUrl /\ tasks[t].vis = "settled"
    /\ tasks' = [tasks EXCEPT ![t].vis = "old"]
    /\ UNCHANGED <<config, subtasks, ev, pc, loc, sub, out, hist>>

\* A user adds the task to a project of the no-autoclose list.
AddProject(t) ==
    /\ Quiet
    /\ tasks[t].url = PrUrl /\ tasks[t].projects = {PROJECT_ID}
    /\ tasks' = [tasks EXCEPT ![t].projects = @ \cup {"11984721910118"}]
    /\ UNCHANGED <<config, subtasks, ev, pc, loc, sub, out, hist>>

Run(r, E) ==
    \/ \E e \in E : Start(r, e)
    \/ \E ok \in BOOLEAN :
        \/ FindCustomFields(r, ok)
        \/ Create(r, ok)
        \/ Search(r, ok)
        \/ Scan(r, ok)
        \/ Section(r, ok)
        \/ Membership(r, ok)
        \/ CloseList(r, ok)
        \/ CloseUpdate(r, ok)
        \/ ListSubtasks(r, ok)
        \/ Complete(r, ok)
        \/ Update(r, ok)
        \/ UpdatePlain(r, ok)
        \/ \E t \in Threads :
            \/ CorTask(r, t, ok)
            \/ CorUser(r, t, ok)
            \/ CorAdd(r, t, ok)
            \/ CorReopen(r, t, ok)
    \/ Sleep(r)
    \/ Finish(r)

Env == \E t \in 1..Len(tasks) : Index(t) \/ Age(t) \/ AddProject(t)

\* Runs one after another: the triggering system starts a run when none is active.
Next == Run(1, Events) \/ Env

Spec == Init /\ [][Next]_vars

\* The same runs over the review payloads.
NextReview == Run(1, ReviewEvents) \/ Env

SpecReview == Init /\ [][NextReview]_vars

\* run() on events of an open pull request that is opened or edited: the close
\* branch and the subtask routines are never entered.
RunOpen(r, E) ==
    \/ \E e \in E : Start(r, e)
    \/ \E ok \in BOOLEAN :
        \/ FindCustomFields(r, ok)
        \/ ParentCheck(r, ok)
        \/ Create(r, ok)
        \/ Search(r, ok)
        \/ Scan(r, ok)
        \/ Section(r, ok)
        \/ ListSubtasks(r, ok)
        \/ Update(r, ok)
        \/ UpdatePlain(r, ok)
    \/ Sleep(r)
    \/ Finish(r)

\* Runs over bodies with parent references.
NextBody == RunOpen(1, BodyEvents) \/ Env

SpecBody == Init /\ [][NextBody]_vars

\* The content build alone: a run over every small body, up to its notes.
NextContent ==
    \/ NoRunActive /\ \E e \in ContentEvents : Start(1, e)
    \/ \E ok \in BOOLEAN : FindCustomFields(1, ok)
    \/ Finish(1)

SpecContent == Init /\ [][NextContent]_vars

\* What a started run does on its own: a response arrives or fails, or the
\* sleep timer fires.
Step(r) ==
    \/ \E ok \in BOOLEAN :
        \/ FindCustomFields(r, ok)
        \/ Create(r, ok)
        \/ Search(r, ok)
        \/ Scan(r, ok)
        \/ Section(r, ok)
        \/ Membership(r, ok)
        \/ CloseList(r, ok)
        \/ CloseUpdate(r, ok)
        \/ ListSubtasks(r, ok)
        \/ Complete(r, ok)
        \/ Update(r, ok)
        \/ UpdatePlain(r, ok)
        \/ \E t \in Threads :
            \/ CorTask(r, t, ok)
            \/ CorUser(r, t, ok)
            \/ CorAdd(r, t, ok)
            \/ CorReopen(r, t, ok)
    \/ Sleep(r)

\* The payloads of the termination model: one of each kind of run.
LiveEvents ==
    {Event("pull_request", a, FixBug, OpenPR, NoLogin, "-") : a \in {"opened", "edited"}}
    \cup {Event("pull_request", "closed", FixBug, MergedPR, NoLogin, "-")}
    \cup {Event("pull_request", "review_requested", FixBug, OpenPR, "marc", "-")}
    \cup {Event("pull_request_review", "submitted", FixBug, OpenPR, "marc", "approved")}
    \cup {Event("push", "-", FixBug, OpenPR, NoLogin, "-")}

\* Runs one after another, each started only while the subtask store has room
\* for the one subtask a run can add.
NextLive ==
    \/ Len(subtasks) < MaxSubtasks /\ \E e \in LiveEvents : Start(1, e)
    \/ Step(1)
    \/ Finish(1)
    \/ Env

\* Every backend request is answered or fails and every timer fires: a started
\* run is never left waiting for ever.
SpecLive == Init /\ [][NextLive]_vars /\ WF_vars(Step(1))

\* The steps of a run on an open pull request whose body names no parent.
StepOpen(r) ==
    \/ \E ok \in BOOLEAN :
        \/ FindCustomFields(r, ok)
        \/ Create(r, ok)
        \/ Search(r, ok)
        \/ Scan(r, ok)
        \/ Section(r, ok)
        \/ ListSubtasks(r, ok)
        \/ Update(r, ok)
        \/ UpdatePlain(r, ok)
    \/ Sleep(r)

\* The payloads of the concurrent model: the pull request is opened, edited
\* as it is, and edited into a draft with another title.
ConcEvents ==
    {Event("pull_request", a, FixBug, OpenPR, NoLogin, "-") : a \in {"opened", "edited"}}
    \cup {Event("pull_request", "edited", FixTypo, DraftPR, NoLogin, "-")}

\* The runs that hold no task yet and may still create one.
Unresolved == {q \in RunIds : pc[q].main # "idle" /\ loc[q].task = 0}

\* A run starts whenever its workflow is idle, beside the other run or not;
\* the store keeps room for one task per unresolved run.
ConcStart(r) ==
    /\ Len(tasks) + Cardinality(Unresolved) < MaxTasks
    /\ \E e \in ConcEvents : Start(r, e)

\* Two workflow runs side by side on the same backend; the index catches up
\* and tasks age while the runs are asleep or idle.
NextConc ==
    \/ \E r \in RunIds : ConcStart(r) \/ StepOpen(r) \/ Finish(r)
    \/ \E t \in 1..Len(tasks) : Index(t) \/ Age(t)

SpecConc ==
    Init /\ [][NextConc]_vars /\ WF_vars(StepOpen(1)) /\ WF_vars(StepOpen(2))


(***************************************************************************)
(* Properties                                                              *)
(***************************************************************************)
\* A run that has begun and is not over.
Active(r) == pc[r].main # "idle"

\* The run ended without reporting a failure.
Succeeded(r) == Ended(r) /\ out[r].failed = ""

\* The run ended and no backend request of it failed.
NoRequestFailed(r) == Ended(r) /\ out[r].failed \notin {BackendError, Unhandled}

\* The contact address of a login of the mapping table (the same in both revisions).
Contact(login) == MAIL_MAP[login] \o "@duckduckgo.com"

\* The subtasks under `parent` assigned to `mail`, in the store `store`.
AssignedTo(store, parent, mail) ==
    {s \in 1..Len(store) : store[s].parent = parent /\ store[s].assignee = mail}

\* The tasks of the store `store` carrying the URL `url`.
TasksFor(store, url) == {t \in 1..Len(store) : store[t].url = url}

\* The status table as the specification words it.
StatusTable(pr) ==
    IF pr.merged THEN "Merged"
    ELSE IF pr.state = "open" /\ pr.draft THEN "Draft"
    ELSE IF pr.state = "open" /\ ~pr.draft THEN "Open"
    ELSE "Closed"

Contains(seq, x) == \E i \in 1..Len(seq) : seq[i] = x

\* Thread t of run r has a backend request outstanding: every position but
\* the idle ones and the sleep of the retry loop is the wait for a response.
Awaiting(r, t) == pc[r][t] \notin {"idle", "none", "done", "sleep"}

\* The step leaves thread t of run r with a request it has just issued.
Issues(r, t) ==
    /\ pc'[r][t] \notin {"idle", "none", "done", "sleep"}
    /\ (pc'[r][t] # pc[r][t] \/ sub'[r][t] # sub[r][t])

\* C1: under one parent no two subtasks are assigned to the same contact
\* address, and a review request for a reviewer who already has a subtask under
\* the resolved task adds no subtask.
C1_OneSubtaskPerReviewer ==
    /\ \A i, j \in 1..Len(subtasks) :
          (i # j /\ subtasks[i].parent = subtasks[j].parent)
              => subtasks[i].assignee # subtasks[j].assignee
    /\ \A r \in RunIds :
          (/\ Active(r) /\ loc[r].task # 0
           /\ ev[r].action = "review_requested" /\ ev[r].reviewer # NoLogin
           /\ AssignedTo(hist[r].subs, loc[r].task, getUserFromLogin(ev[r].reviewer)) # {})
              => Len(subtasks) = Len(hist[r].subs)

\* C1 witness: a repeated review request ended on a parent that holds the
\* subtasks of two reviewers, the requested one reopened.
C1_Witness ==
    /\ Succeeded(1) /\ IsReviewRequest(ev[1])
    /\ \E s \in AssignedTo(hist[1].subs, loc[1].task, getUserFromLogin(ev[1].reviewer)) :
          hist[1].subs[s].completed /\ ~subtasks[s].completed
    /\ Cardinality({s \in 1..Len(subtasks) : subtasks[s].parent = loc[1].task}) = 2

\* C2 (as claimed): when a task with the pull request's URL exists and the
\* backend can show it (in the index or in the project scan), a run for any
\* action, 'opened' included, that ends without failure resolved to such a task
\* and created none.
C2_ResolutionIdempotent ==
    \A r \in RunIds :
        (/\ Succeeded(r) /\ Relevant(ev[r])
         /\ TasksFor(hist[r].tasks, ev[r].pr.html_url) # {})
            => /\ loc[r].task \in TasksFor(hist[r].tasks, ev[r].pr.html_url)
               /\ hist[r].creates = 0

\* C2 (amended): when a task with the pull request's URL exists, a run for an
\* action other than 'opened' creates no task, and when it ends without failure
\* it resolved to a task that carried the URL before the run.
C2_NonOpenedIdempotent ==
    \A r \in RunIds :
        (/\ Active(r) /\ Relevant(ev[r]) /\ ev[r].action # "opened"
         /\ TasksFor(hist[r].tasks, ev[r].pr.html_url) # {})
            => /\ hist[r].creates = 0
               /\ Len(tasks) = Len(hist[r].tasks)
               /\ Succeeded(r) => loc[r].task \in TasksFor(hist[r].tasks, ev[r].pr.html_url)

\* C2 witness: an edit ended on the one task of the pull request, found by the
\* project scan while the index did not show it yet.
C2_Witness ==
    /\ Succeeded(1) /\ ev[1].action = "edited" /\ out[1].result = "updated"
    /\ TasksFor(hist[1].tasks, PrUrl) = {loc[1].task}
    /\ hist[1].tasks[loc[1].task].vis = "fresh"
    /\ hist[1].lookups = 1

\* C3 (as claimed): a run whose five lookups all came back empty creates a
\* task and does not fail.
C3_CreateAfterRetries ==
    \A r \in RunIds :
        (NoRequestFailed(r) /\ loc[r].retries = maxRetries)
            => hist[r].creates = 1 /\ out[r].failed = ""

\* C4: when a run on a closed pull request ends without failure, every subtask
\* of the resolved task is completed.
C4_CloseCascades ==
    \A r \in RunIds :
        (Succeeded(r) /\ Relevant(ev[r]) /\ ev[r].pr.state = "closed")
            => \A s \in 1..Len(subtasks) :
                  subtasks[s].parent = loc[r].task => subtasks[s].completed

\* C4 witness: a closed run ended with two subtasks completed that were open
\* before, on a parent it left open.
C4_Witness ==
    /\ Succeeded(1) /\ ev[1].pr.state = "closed"
    /\ ~tasks[loc[1].task].completed
    /\ Cardinality({s \in 1..Len(subtasks) :
          /\ subtasks[s].parent = loc[1].task /\ subtasks[s].completed
          /\ ~hist[1].subs[s].completed}) = 2

\* C5: when a run on a closed pull request ends without failure, the parent is
\* completed exactly when none of its projects is in the no-autoclose list, and
\* its subtasks are completed either way.
C5_ClosePolicy ==
    \A r \in RunIds :
        (Succeeded(r) /\ Relevant(ev[r]) /\ ev[r].pr.state = "closed")
            => /\ tasks[loc[r].task].completed
                    = (tasks[loc[r].task].projects \cap NO_AUTOCLOSE_LIST = {})
               /\ \A s \in 1..Len(subtasks) :
                     subtasks[s].parent = loc[r].task => subtasks[s].completed

\* C5 witness: a closed run ended on a parent in an excluded project, leaving it
\* incomplete with a subtask it completed.
C5_Witness ==
    /\ Succeeded(1) /\ ev[1].pr.state = "closed"
    /\ tasks[loc[1].task].projects \cap NO_AUTOCLOSE_LIST # {}
    /\ ~tasks[loc[1].task].completed
    /\ \E s \in 1..Len(subtasks) :
          /\ subtasks[s].parent = loc[1].task /\ subtasks[s].completed
          /\ ~hist[1].subs[s].completed

\* C6: when an approval on an open pull request ends without failure and the
\* review's author had a subtask under the parent, that subtask is completed
\* and no subtask was added.
C6_ApprovalCompletes ==
    \A r \in RunIds :
        (/\ Succeeded(r) /\ IsApproval(ev[r]) /\ ev[r].pr.state # "closed"
         /\ AssignedTo(hist[r].subs, loc[r].task, getUserFromLogin(ev[r].reviewer)) # {})
            => /\ \A s \in AssignedTo(hist[r].subs, loc[r].task,
                                      getUserFromLogin(ev[r].reviewer)) :
                     subtasks[s].completed
               /\ Len(subtasks) = Len(hist[r].subs)

\* C6 witness: an approval ended having completed the author's open subtask.
C6_Witness ==
    /\ Succeeded(1) /\ IsApproval(ev[1]) /\ ev[1].pr.state # "closed"
    /\ \E s \in AssignedTo(hist[1].subs, loc[1].task, getUserFromLogin(ev[1].reviewer)) :
          ~hist[1].subs[s].completed /\ subtasks[s].completed

\* C7 (as claimed): a review request on an open pull request for a mapped
\* reviewer outside the skip list reopens the reviewer's completed subtask and
\* adds none, or, when the reviewer has no subtask, adds exactly one assigned to
\* the reviewer's contact address.
C7_RequestReopensOrCreates ==
    \A r \in RunIds :
        (/\ Succeeded(r) /\ Relevant(ev[r])
         /\ ev[r].action = "review_requested" /\ ev[r].pr.state = "open"
         /\ ev[r].reviewer \in DOMAIN MAIL_MAP
         /\ ev[r].reviewer \notin SKIPPED_USERS_LIST)
            => LET mine == AssignedTo(hist[r].subs, loc[r].task, Contact(ev[r].reviewer))
               IN  IF mine # {}
                   THEN /\ \A s \in mine : ~subtasks[s].completed
                        /\ Len(subtasks) = Len(hist[r].subs)
                   ELSE /\ Len(subtasks) = Len(hist[r].subs) + 1
                        /\ subtasks[Len(subtasks)].parent = loc[r].task
                        /\ subtasks[Len(subtasks)].assignee = Contact(ev[r].reviewer)

\* C8: the status a run derives is that of the table: Merged when merged, else
\* Draft or Open for an open pull request, else Closed; it is always an option.
C8_StatusMapping ==
    \A r \in RunIds :
        (Active(r) /\ loc[r].title # <<>>)
            => /\ loc[r].statusGid = enum_options[StatusTable(ev[r].pr)]
               /\ loc[r].statusGid # ""

\* C8 witness: a run derived Merged for a merged pull request reporting state
\* 'closed', and went on to write it.
C8_Witness ==
    /\ Succeeded(1) /\ ev[1].pr.merged /\ ev[1].pr.state = "closed"
    /\ tasks[loc[1].task].status = "gid-merged"

\* C9: when a run that was not skipped ends without failure, the resolved
\* task's name and Status are those derived from the event.
C9_NameAndStatusSynced ==
    \A r \in RunIds :
        (Succeeded(r) /\ Relevant(ev[r]))
            => /\ tasks[loc[r].task].name = Title(ev[r])
               /\ tasks[loc[r].task].status = enum_options[StatusTable(ev[r].pr)]

\* C9 witness: an edit ended on an existing task whose name it changed.
C9_Witness ==
    /\ Succeeded(1) /\ ev[1].action = "edited" /\ ev[1].pr.title = FixTypo
    /\ loc[1].task <= Len(hist[1].tasks)
    /\ hist[1].tasks[loc[1].task].name # tasks[loc[1].task].name
    /\ Contains(hist[1].tasks[loc[1].task].name, "Fix bug")

\* C10: a run for 'opened' looks nothing up and creates exactly one task; the
\* task carries the pull request's URL, the option of the mapped status, a name
\* holding the number and the title, and belongs to the configured project.
C10_OpenedCreates ==
    \A r \in RunIds :
        (Active(r) /\ Relevant(ev[r]) /\ ev[r].action = "opened")
            => /\ hist[r].lookups = 0
               /\ hist[r].creates <= 1
               /\ Len(tasks) = Len(hist[r].tasks) + hist[r].creates
               /\ (NoRequestFailed(r) /\ out[r].failed # MissingFields)
                      => hist[r].creates = 1
               /\ hist[r].creates = 1
                      => /\ loc[r].task = Len(tasks)
                         /\ tasks[loc[r].task].url = ev[r].pr.html_url
                         /\ tasks[loc[r].task].status = enum_options[StatusTable(ev[r].pr)]
                         /\ Contains(tasks[loc[r].task].name, ev[r].pr.number)
                         /\ \A i \in 1..Len(ev[r].pr.title) :
                               Contains(tasks[loc[r].task].name, ev[r].pr.title[i])
                         /\ PROJECT_ID \in tasks[loc[r].task].projects

\* C10 witness: an 'opened' run for an open, non-draft pull request has created
\* its task with Status Open.
C10_Witness ==
    /\ pc[1].main \in {"section", "subtasks"} /\ ev[1].action = "opened"
    /\ ~ev[1].pr.draft /\ hist[1].creates = 1
    /\ tasks[loc[1].task].status = "gid-open"
    /\ tasks[loc[1].task].name \in {<<"o/r", "#", "42", " - ", "Fix bug">>,
                                      <<"PR ", "r", " #", "42", ": ", "Fix bug">>}

\* C11: while a custom field is missing, a run that passed the filter stands at
\* the field lookup or has ended there with a failure: it never slept or looked
\* a task up, created none, resolved none, set no output and left the tasks and
\* subtasks of the backend as they were.
C11_MissingFieldsFatal ==
    \A r \in RunIds :
        (/\ Active(r) /\ Relevant(ev[r])
         /\ ~(CUSTOM_FIELD_NAMES.url \in fieldNames /\ CUSTOM_FIELD_NAMES.status \in fieldNames))
            => /\ pc[r] \in {[main |-> "fields", float |-> "none"],
                              [main |-> "done", float |-> "none"]}
               /\ pc[r].main = "done" => out[r].failed \in {MissingFields, BackendError}
               /\ loc[r] = LocInit
               /\ hist[r].lookups = 0 /\ hist[r].creates = 0
               /\ out[r].result = "" /\ out[r].task_url = 0
               /\ tasks = hist[r].tasks /\ subtasks = hist[r].subs

\* C11 witness: with the URL field present and the Status field missing, an edit
\* ended with the missing-fields failure.
C11_Witness ==
    /\ Ended(1) /\ out[1].failed = MissingFields
    /\ ev[1].action = "edited"
    /\ CUSTOM_FIELD_NAMES.url \in fieldNames

\* C12 (as claimed): a run that ended by its final update made the first attempt
\* with rich notes; after a rejected first attempt it made a second one with
\* plaintext notes and the same name, completed flag and status, and it failed
\* only when both were rejected.
C12_RichThenPlain ==
    \A r \in RunIds :
        (/\ Ended(r) /\ hist[r].updates >= 1
         /\ out[r].failed \in {"", BackendError})
            => /\ (out[r].failed = "" /\ hist[r].updates = 1)
                      => tasks[loc[r].task].notes = "html"
               /\ (out[r].failed = "" /\ hist[r].updates = 2)
                      => /\ tasks[loc[r].task].notes = "plain"
                         /\ tasks[loc[r].task].name = loc[r].title
                         /\ tasks[loc[r].task].completed = loc[r].closeTask
                         /\ tasks[loc[r].task].status = loc[r].statusGid
               /\ out[r].failed = BackendError => hist[r].updates = 2

\* C13: the task a run created has the referenced parent when the notes carry a
\* reference and the parent could be fetched, and no parent when the fetch
\* failed or the notes carry no reference; a failed fetch leaves the run
\* unfailed and on its way to the creation.
C13_ParentDroppedNotFatal ==
    \A r \in RunIds :
        /\ (Active(r) /\ hist[r].parentFetch = "failed" /\ pc[r].main = "create")
              => out[r].failed = ""
        /\ (Active(r) /\ hist[r].creates = 1)
              => /\ hist[r].parentFetch = "failed" => tasks[loc[r].task].parent = ""
                 /\ hist[r].parentFetch = "ok" => tasks[loc[r].task].parent = ParentRef
                 /\ hist[r].parentFetch = "none"
                        => /\ tasks[loc[r].task].parent = ""
                           /\ ~Contains(loc[r].notes, RefLine)
                 /\ Contains(loc[r].notes, RefLine) => hist[r].parentFetch # "none"

\* C13 witness: a run whose notes carry a reference ended without failure after
\* the parent could not be fetched, having created a task without parent.
C13_Witness ==
    /\ Succeeded(1) /\ hist[1].creates = 1 /\ hist[1].parentFetch = "failed"
    /\ Contains(loc[1].notes, RefLine)
    /\ tasks[loc[1].task].parent = ""
    /\ tasks[loc[1].task].url = PrUrl

\* C15: the body a run put into its notes is a fixed point of the body
\* transformation (the cut to the cap with its marker where the revision cuts,
\* then the removal of the first '---' line and all after it).
C15_BodyTransformIdempotent ==
    \A r \in RunIds :
        (Active(r) /\ loc[r].title # <<>>)
            => /\ loc[r].notes = truncatedBody(BodyOrDefault(ev[r].pr.body))
               /\ truncatedBody(loc[r].notes) = loc[r].notes

\* C15 witness: a body longer than the cap whose footer marker lies inside the
\* cap was cut and stripped down to its first line.
C15_Witness ==
    /\ Active(1) /\ loc[1].title # <<>> /\ build = Part001
    /\ Len(ev[1].pr.body) > BodyCap
    /\ \E i \in 2..BodyCap : FooterAt(Truncate(ev[1].pr.body), i)
    /\ loc[1].notes # <<>>
    /\ Len(loc[1].notes) < BodyCap

\* C14 (as claimed): a run for a review request or an approval on an open pull
\* request whose reviewer is in the skip list or has no entry in the mapping
\* leaves the subtasks as they were: none added, none reopened, none completed.
C14_SkippedOrUnmappedUntouched ==
    \A r \in RunIds :
        (/\ Active(r) /\ Relevant(ev[r]) /\ ev[r].pr.state = "open"
         /\ ev[r].action = "review_requested" \/ IsApproval(ev[r])
         /\ ev[r].reviewer # NoLogin
         /\ ev[r].reviewer \in SKIPPED_USERS_LIST \/ ev[r].reviewer \notin DOMAIN MAIL_MAP)
            => subtasks = hist[r].subs

\* C16: the result output is 'created' exactly when the run created the task
\* and 'updated' exactly when it found one, the task link is that of the task
\* the run holds, and a run that holds no task has set neither.
C16_OutputsTellResolution ==
    \A r \in RunIds :
        Active(r)
            => /\ out[r].result \in {"", "created", "updated"}
               /\ out[r].result = "created" <=> hist[r].creates = 1
               /\ out[r].result = "updated" <=> (loc[r].task # 0 /\ hist[r].creates = 0)
               /\ out[r].result = "updated" => loc[r].task \in 1..Len(hist[r].tasks)
               /\ out[r].result = "created" => loc[r].task = Len(hist[r].tasks) + 1
               /\ out[r].task_url = loc[r].task
               /\ loc[r].task = 0 => (out[r].result = "" /\ out[r].task_url = 0)

\* C16 witness: an edit ended with 'updated' and the link of the task the
\* primary search had found, a task that was in the store before the run.
C16_Witness ==
    /\ Succeeded(1) /\ ev[1].action = "edited" /\ build = Part001
    /\ out[1].result = "updated" /\ out[1].task_url = loc[1].task
    /\ loc[1].task \in TasksFor(hist[1].tasks, PrUrl)
    /\ hist[1].tasks[loc[1].task].vis = "old"

\* C17 (as claimed): once a run has reported a failure, no step of it issues
\* a backend request.
C17_NoRequestAfterFailure ==
    [][\A r \in RunIds :
          out[r].failed # "" => ~(\E t \in Threads : Issues(r, t))]_vars

\* C18 (as claimed): no run has a request outstanding in run() and another in
\* a routine it started.
C18_NoOverlappingRequests ==
    \A r \in RunIds : ~(Awaiting(r, "main") /\ Awaiting(r, "float"))

\* C19: a run for another event kind or for a 'Release: ' title is over at
\* once: no request outstanding or made, no output, no failure, the backend
\* as it was.
C19_IrrelevantEventsIgnored ==
    \A r \in RunIds :
        (/\ Active(r)
         /\ \/ ev[r].name \notin {"pull_request", "pull_request_target", "pull_request_review"}
            \/ StartsWith(ev[r].pr.title, <<"Release: ">>))
            => /\ pc[r] = [main |-> "done", float |-> "none"]
               /\ out[r] = OutInit /\ loc[r] = LocInit
               /\ hist[r].lookups = 0 /\ hist[r].creates = 0 /\ hist[r].updates = 0
               /\ tasks = hist[r].tasks /\ subtasks = hist[r].subs

\* C19 witness: a run for a release pull request is over while a task with the
\* pull request's URL and another name sits in the store.
C19_Witness ==
    /\ Ended(1) /\ ev[1].name = "pull_request" /\ ev[1].pr.title = ReleaseTitle
    /\ \E t \in TasksFor(tasks, PrUrl) : ~Contains(tasks[t].name, "Release: ")

\* C20 (as claimed): the fallback scan is requested only when the primary
\* search answered with no task.
C20_ScanOnlyAfterEmptySearch ==
    \A r \in RunIds :
        pc[r].main = "scan" => IndexResult(ev[r].pr.html_url) = {}

\* C21 (as claimed): a run makes at most five lookup attempts, an attempt that
\* found the task is the last and no creation follows it, and the run sleeps
\* only between two attempts: one sleep less than attempts, none after the fifth.
C21_SleepOnlyBetweenAttempts ==
    \A r \in RunIds :
        (Active(r) /\ Relevant(ev[r]) /\ ev[r].action # "opened")
            => /\ hist[r].lookups <= maxRetries
               /\ out[r].result = "updated"
                      => (hist[r].creates = 0 /\ loc[r].retries = hist[r].lookups - 1)
               /\ pc[r].main = "sleep" => hist[r].lookups < maxRetries
               /\ loc[r].retries < maxRetries

\* C22 (as claimed): during an approval run on an open pull request no subtask
\* of the parent that was completed when the run began is open.
C22_ApprovalNeverReopens ==
    \A r \in RunIds :
        (Active(r) /\ IsApproval(ev[r]) /\ ev[r].pr.state = "open" /\ loc[r].task # 0)
            => \A s \in 1..Len(hist[r].subs) :
                  (hist[r].subs[s].parent = loc[r].task /\ hist[r].subs[s].completed)
                      => subtasks[s].completed

\* The fields of a task that only a run writes.
Written(task) ==
    [url |-> task.url, name |-> task.name, status |-> task.status, notes |-> task.notes,
     completed |-> task.completed, parent |-> task.parent, section |-> task.section]

\* C24: a run creates at most one task; the task it holds is the one its
\* outputs name; every other task of the store keeps what runs write, and every
\* subtask the run added or changed lies under the task it holds.
C24_OneTaskPerRun ==
    \A r \in RunIds :
        Active(r)
            => /\ hist[r].creates <= 1
               /\ Len(tasks) = Len(hist[r].tasks) + hist[r].creates
               /\ hist[r].creates = 1 => loc[r].task = Len(tasks)
               /\ loc[r].task # 0 => out[r].task_url = loc[r].task
               /\ \A t \in 1..Len(hist[r].tasks) :
                     t # loc[r].task => Written(tasks[t]) = Written(hist[r].tasks[t])
               /\ \A s \in 1..Len(subtasks) :
                     (s > Len(hist[r].subs) \/ subtasks[s] # hist[r].subs[s])
                         => (loc[r].task # 0 /\ subtasks[s].parent = loc[r].task)
               /\ \A t \in Threads : \A i \in 1..Len(sub[r][t].list) :
                     subtasks[sub[r][t].list[i]].parent = loc[r].task

\* C24 witness: with another pull request's task in the store, a run ended
\* having moved the task it found and added a subtask under it.
C24_Witness ==
    /\ Succeeded(1) /\ out[1].result = "updated" /\ sectionId # ""
    /\ Len(hist[1].tasks) = 2 /\ loc[1].task = 2
    /\ hist[1].tasks[2].section = "" /\ tasks[1] = OtherTask
    /\ Len(subtasks) = Len(hist[1].subs) + 1
    /\ subtasks[Len(subtasks)].parent = loc[1].task
    /\ tasks[loc[1].task].section = sectionId

\* C26 (as claimed): the section move is requested only for a task this run
\* created, and a task found by lookup keeps the section it had.
C26_SectionMoveOnCreationOnly ==
    \A r \in RunIds :
        /\ (Active(r) /\ pc[r].main = "section") => out[r].result = "created"
        /\ (Active(r) /\ out[r].result = "updated")
              => tasks[loc[r].task].section = hist[r].tasks[loc[r].task].section

\* C27: when a run on a pull request that is not closed ends without failure,
\* the task it holds is not completed.
C27_OpenEventReopensParent ==
    \A r \in RunIds :
        (Succeeded(r) /\ Relevant(ev[r]) /\ ev[r].pr.state # "closed")
            => ~tasks[loc[r].task].completed

\* C27 witness: an edit of an open pull request ended on a task that was
\* completed when the run began.
C27_Witness ==
    /\ Succeeded(1) /\ ev[1].action = "edited" /\ ev[1].pr.state = "open"
    /\ loc[1].task \in 1..Len(hist[1].tasks)
    /\ hist[1].tasks[loc[1].task].completed
    /\ ~tasks[loc[1].task].completed

\* C28: when an approval on an open pull request by a mapped reviewer outside
\* the skip list, who had no subtask under the parent, ends without failure,
\* exactly one subtask was added; it lies under the parent, is assigned to the
\* reviewer's contact address and is completed.
C28_ApprovalWithoutSubtaskAddsCompleted ==
    \A r \in RunIds :
        (/\ Succeeded(r) /\ IsApproval(ev[r]) /\ ev[r].pr.state = "open"
         /\ ev[r].reviewer \in DOMAIN MAIL_MAP
         /\ ev[r].reviewer \notin SKIPPED_USERS_LIST
         /\ AssignedTo(hist[r].subs, loc[r].task, Contact(ev[r].reviewer)) = {})
            => /\ Len(subtasks) = Len(hist[r].subs) + 1
               /\ subtasks[Len(subtasks)].parent = loc[r].task
               /\ subtasks[Len(subtasks)].assignee = Contact(ev[r].reviewer)
               /\ subtasks[Len(subtasks)].completed
               /\ \A s \in 1..Len(hist[r].subs) : subtasks[s] = hist[r].subs[s]

\* C28 witness: an approval by a reviewer without subtask ended with a new
\* completed subtask beside another reviewer's open one.
C28_Witness ==
    /\ Succeeded(1) /\ IsApproval(ev[1]) /\ ev[1].pr.state = "open"
    /\ ev[1].reviewer \in DOMAIN MAIL_MAP /\ ev[1].reviewer \notin SKIPPED_USERS_LIST
    /\ Len(hist[1].subs) = 1 /\ Len(subtasks) = 2
    /\ hist[1].subs[1].parent = loc[1].task /\ ~subtasks[1].completed
    /\ subtasks[2].completed /\ subtasks[2].assignee = Contact(ev[1].reviewer)

\* C29: a run for anything but a review request or an approval on a pull
\* request that is not closed leaves the subtasks as they were; a run on a
\* closed pull request adds no subtask and opens none.
C29_SubtasksOnlyByReviewEvents ==
    \A r \in RunIds :
        (Active(r) /\ Relevant(ev[r]))
            => /\ (/\ ev[r].pr.state # "closed"
                   /\ ev[r].action # "review_requested"
                   /\ ~IsApproval(ev[r]))
                      => subtasks = hist[r].subs
               /\ ev[r].pr.state = "closed"
                      => /\ Len(subtasks) = Len(hist[r].subs)
                         /\ \A s \in 1..Len(hist[r].subs) :
                               /\ hist[r].subs[s].completed => subtasks[s].completed
                               /\ subtasks[s].assignee = hist[r].subs[s].assignee
                               /\ subtasks[s].parent = hist[r].subs[s].parent

\* C29 witness: a review request on a merged pull request ended having added
\* no subtask and completed the one that was open.
C29_Witness ==
    /\ Succeeded(1) /\ ev[1].action = "review_requested" /\ ev[1].pr.state = "closed"
    /\ Len(subtasks) = 1 /\ Len(hist[1].subs) = 1
    /\ ~hist[1].subs[1].completed /\ subtasks[1].completed

\* How a run that has ended came out.
Completed(r) == out[r].failed = "" /\ loc[r].retries < maxRetries
Exhausted(r) ==
    /\ out[r].failed = "" /\ loc[r].retries = maxRetries
    /\ hist[r].creates = 1 /\ out[r].result = "created"
Failed(r) == out[r].failed # ""

\* C23: the retry loop never makes more than five attempts, a run that has
\* ended either completed, or completed after exhausting the retry budget and
\* creating a task, or failed with an error message, and every started run
\* ends.
C23_EveryRunTerminates ==
    /\ [](\A r \in RunIds :
            /\ hist[r].lookups <= maxRetries /\ loc[r].retries <= maxRetries
            /\ Ended(r) => (Completed(r) \/ Exhausted(r) \/ Failed(r))
            /\ (Ended(r) /\ Completed(r) /\ Relevant(ev[r]))
                  => out[r].result \in {"created", "updated"})
    /\ (pc[1].main # "idle") ~> Ended(1)

\* C23 witness: a run has ended after five empty attempts and a creation.
C23_Witness ==
    /\ Ended(1) /\ Exhausted(1) /\ hist[1].lookups = maxRetries
    /\ ev[1].action = "edited"

\* The tasks for the pull request that a lookup made now would find.
Discoverable == ScanResult(PrUrl) \cup SearchResult(PrUrl)

\* C25 (as claimed): a run for an action other than 'opened' that started
\* while a task for the pull request was discoverable creates none; name,
\* status and completed flag of a task change only by a run's final update,
\* which writes that run's values together; and a run that was looking for
\* the task decides to create only while no task for the pull request is
\* discoverable.
C25_DuplicateOnlyWhileUndiscoverable ==
    /\ [](\A r \in RunIds :
            (/\ Active(r) /\ ev[r].action # "opened"
             /\ \E t \in 1..Len(hist[r].tasks) :
                   /\ hist[r].tasks[t].url = PrUrl
                   /\ hist[r].tasks[t].vis = "settled"
                   /\ PROJECT_ID \in hist[r].tasks[t].projects)
                => hist[r].creates = 0)
    /\ [][/\ \A t \in 1..Len(tasks) :
              <<tasks'[t].name, tasks'[t].status, tasks'[t].completed>>
                    # <<tasks[t].name, tasks[t].status, tasks[t].completed>>
                 => \E r \in RunIds :
                       /\ pc[r].main \in {"update", "update_plain"} /\ loc[r].task = t
                       /\ tasks'[t].name = loc[r].title
                       /\ tasks'[t].status = loc[r].statusGid
                       /\ tasks'[t].completed = loc[r].closeTask
          /\ \A r \in RunIds :
                (pc[r].main = "sleep" /\ pc'[r].main = "create") => Discoverable = {}]_vars

====
